---- MODULE Spec2Model ----
(***************************************************************************)
(* Mapping definitions of AFQ/definitions/mapping.py.                      *)
(*                                                                         *)
(* Three state machines share this module:                                 *)
(*   SpecGen  the maps pyAFQ generates itself (SynMap, SlrMap, AffMap) and *)
(*            their on-disk cache (GeneratedMapMixin);                     *)
(*   SpecExt  the maps read from precomputed warps (FnirtMap, ItkMap);     *)
(*   SpecAff  the ConformedAffineMapping adapter over AffineMap.           *)
(* Each specification leaves the variables it does not use untouched.      *)
(* External collaborators (dipy, fslpy, h5py, AFQ.registration, AFQ.data,  *)
(* find_file) are calls recorded in the order they are made; what they     *)
(* compute, and whether they raise, is an input of the action.             *)
(***************************************************************************)
EXTENDS Integers, Sequences, FiniteSets, TLC

VARIABLES
    defn,       \* the mapping definition object of the run (self)
    files,      \* the working directory: files[row][name], contents or NoFile
    torn,       \* history: artifacts whose sidecar write was aborted by an exception
    last,       \* record of the most recent call: its inputs, the external
                \* calls it made in order, the exception it raised, its result
    has_fslpy,  \* module flag: the fsl imports succeeded
    has_h5py,   \* module flag: the h5py import succeeded
    afq,        \* afq_object: the registration template of the run
    handles,    \* number of HDF5 file objects opened and not closed
    found,      \* history: what the latest find_path that returned stored, per pair
    mapping     \* the mapping object whose transforms the caller uses: the
                \* ConformedFnirtMapping most recently returned by get_for_row,
                \* or the ConformedAffineMapping under study

extVars == <<has_fslpy, has_h5py, afq, handles, found, mapping>>
vars == <<defn, files, torn, last, has_fslpy, has_h5py, afq, handles, found, mapping>>

----------------------------------------------------------------------------
(* Bounds *)

\* rows (subject/session pairs) of the data table
NumRows == 1
\* largest translation of a registration matrix
MaxT == 1
\* sessions of the dataset
NumSessions == 1
\* HDF5 file objects that may be open at once (cap on the handle counter)
MaxOpen == 2
\* largest voxel value of the data handed to transform / transform_inverse
MaxData == 1

Rows == 1..NumRows

----------------------------------------------------------------------------
(* Values *)

\* Python's None
None == <<>>
\* an argument that was never passed (the call was not made)
Unset == <<"unset">>
\* no exception is propagating
NoExc == "none"
\* op.exists(name) is False
NoFile == [kind |-> "absent"]

\* Registration matrices. A 4x4 affine [[R, t], [0, 1]] is modelled by its
\* 1-D analogue [[a, t], [0, 1]], written <<a, t>>: the map x |-> a*x + t.
\* affine_registration yields the translations (a = 1); inversion is not the
\* identity on them.
Matrices == {<<1, t>> : t \in (0 - MaxT)..MaxT}

\* np.linalg.inv, as a bug would have it: the matrix itself
inv_omitted(m) == m

\* np.linalg.inv : [[a, t], [0, 1]]^-1 = [[a, -a*t], [0, 1]] when a*a = 1
inv(m) == <<m[1], 0 - (m[1] * m[2])>>

\* np.load of a saved matrix
np_load(f) == IF f.kind = "npy" THEN f.data ELSE None

PrealignNpy == "_prealign_from-DWI_to-MNI_xfm.npy"
PrealignJson == "_prealign_from-DWI_to-MNI_xfm.json"

\* GeneratedMapMixin.get_fnames: <<mapping_file, meta_fname>>
get_fnames(extension) ==
    <<"_mapping_from-DWI_to_MNI_xfm" \o extension, "_mapping_reg" \o ".json">>

Extensions == {".nii.gz", ".npy"}
FileNames == {PrealignNpy, PrealignJson}
             \cup {get_fnames(e)[1] : e \in Extensions}
             \cup {get_fnames(e)[2] : e \in Extensions}

\* The external calls of one get_for_row that can fail; at most one of them
\* raises in a given call ("none": all of them succeed).
Faults == {"none", "affine_registration", "np.save", "write_json:prealign",
           "syn_registration", "write_mapping", "write_json:mapping",
           "read_mapping"}

----------------------------------------------------------------------------
(* Constructors: the attributes each __init__ assigns *)

SynMap_init(use_prealign) ==
    [cls |-> "SynMap",
     attrs |-> {"use_prealign", "affine_kwargs", "syn_kwargs", "extension"},
     use_prealign |-> use_prealign,
     extension |-> ".nii.gz"]

SlrMap_init ==
    [cls |-> "SlrMap",
     attrs |-> {"syn_kwargs", "use_prealign", "extension"},
     use_prealign |-> FALSE,
     extension |-> ".npy"]

AffMap_init ==
    [cls |-> "AffMap",
     attrs |-> {"use_prealign", "affine_kwargs", "extension"},
     use_prealign |-> FALSE,
     extension |-> ".npy"]

----------------------------------------------------------------------------
(* Execution of one call.  A context c carries the working directory, the  *)
(* external calls made so far, the exception being propagated and the      *)
(* locals of get_for_row; once an exception is raised every later          *)
(* statement is skipped.                                                   *)

Ctx0(fs) ==
    [files |-> fs, calls |-> <<>>, exc |-> NoExc,
     reg_prealign |-> Unset, mapping |-> Unset,
     gen_prealign |-> Unset, read_prealign |-> Unset, ret |-> None]

\* self.<attr> : AttributeError when __init__ never assigned it
ReadAttr(self, c, attr) ==
    IF c.exc # NoExc THEN c
    ELSE IF attr \in self.attrs THEN c
    ELSE [c EXCEPT !.exc = "AttributeError"]

\* an external call: it is entered, and raises when it is the faulty one
Invoke(c, name, fault) ==
    IF c.exc # NoExc THEN c
    ELSE IF fault = name
         THEN [c EXCEPT !.calls = Append(@, name), !.exc = "ExternalError"]
         ELSE [c EXCEPT !.calls = Append(@, name)]

\* the effect of a write that did not raise
Store(c, row, name, content) ==
    IF c.exc # NoExc THEN c
    ELSE [c EXCEPT !.files[row][name] = content]

\* an external call that writes a file (np.save, reg.write_mapping,
\* afd.write_json); a call that raises writes nothing
WriteFile(c, row, name, content, call, fault) ==
    Store(Invoke(c, call, fault), row, name, content)

\* op.exists(name), as a bug would have it: the file is never found
op_exists_never(c, row, name) == FALSE

\* op.exists(name)
op_exists(c, row, name) == c.files[row][name] # NoFile

\* afd.write_json(meta_fname, meta), as a bug would have it: nothing written
write_json_skipped(c, row, name, meta, call, fault) == Invoke(c, call, fault)

\* afd.write_json(meta_fname, meta)
write_json(c, row, name, meta, call, fault) ==
    WriteFile(c, row, name, [kind |-> "json", type |-> meta.type], call, fault)

\* GeneratedMapMixin.prealign ; aff is what affine_registration computes
prealign(self, c, row, aff, fault) ==
    IF c.exc # NoExc THEN c
    ELSE IF op_exists(c, row, PrealignNpy) THEN Invoke(c, "prealign", fault)
    ELSE LET c1 == ReadAttr(self, Invoke(c, "prealign", fault),
                            "affine_kwargs")
             c2 == Invoke(c1, "affine_registration", fault)
             c3 == WriteFile(c2, row, PrealignNpy,
                             [kind |-> "npy", data |-> aff], "np.save", fault)
         IN  write_json(c3, row, PrealignJson, [type |-> "rigid"],
                        "write_json:prealign", fault)

\* the local `mapping` is bound to the value a registration returned
Bind(c, value) ==
    IF c.exc # NoExc THEN c ELSE [c EXCEPT !.mapping = value]

\* the mapping syn_registration returns, after SynMap.gen_mapping has set
\* its codomain_world2grid
SynMapping(self, reg_prealign) ==
    [alg |-> "syn",
     prealign |-> reg_prealign,
     codomain_world2grid |->
         IF self.use_prealign THEN inv(reg_prealign) ELSE None]

\* SynMap.gen_mapping
SynMap_gen_mapping(self, c, row, aff, fault, reg_prealign) ==
    LET c1 == ReadAttr(self, c, "syn_kwargs")
        c2 == Invoke(c1, "syn_registration", fault)
        c3 == ReadAttr(self, c2, "use_prealign")
    IN  Bind(c3, SynMapping(self, reg_prealign))

\* SlrMap.gen_mapping
SlrMap_gen_mapping(self, c, row, aff, fault, reg_prealign) ==
    LET c1 == ReadAttr(self, c, "slr_kwargs")
        c2 == Invoke(c1, "slr_registration", fault)
    IN  Bind(c2, [alg |-> "slr", prealign |-> None,
                  codomain_world2grid |-> None])

\* ConformedAffineMapping(np.load(prealign_file))
LoadAffine(c, row) ==
    IF c.exc # NoExc THEN c
    ELSE [c EXCEPT !.mapping = [alg |-> "affine",
                                prealign |-> np_load(c.files[row][PrealignNpy]),
                                codomain_world2grid |-> None]]

\* AffMap.gen_mapping
AffMap_gen_mapping(self, c, row, aff, fault, reg_prealign) ==
    LoadAffine(prealign(self, c, row, aff, fault), row)

\* self.gen_mapping, dispatched on the class of self
gen_mapping(self, c, row, aff, fault, reg_prealign) ==
    CASE self.cls = "SynMap" ->
             SynMap_gen_mapping(self, c, row, aff, fault, reg_prealign)
      [] self.cls = "SlrMap" ->
             SlrMap_gen_mapping(self, c, row, aff, fault, reg_prealign)
      [] self.cls = "AffMap" ->
             AffMap_gen_mapping(self, c, row, aff, fault, reg_prealign)

\* get_for_row, lines 232-235: reg_prealign
LoadPrealign(self, c, row) ==
    IF c.exc # NoExc THEN c
    ELSE [c EXCEPT !.reg_prealign =
              IF self.use_prealign
              THEN np_load(c.files[row][PrealignNpy])
              ELSE None]

EnsurePrealign(self, c, row, aff, fault) ==
    IF self.use_prealign
    THEN LoadPrealign(self,
                      Invoke(prealign(self, c, row, aff, fault),
                             "np.load", fault),
                      row)
    ELSE LoadPrealign(self, c, row)

\* get_for_row, lines 243-245: the call of self.gen_mapping
CallGenMapping(self, c, row, aff, fault) ==
    gen_mapping(self,
                [Invoke(c, "gen_mapping", fault)
                     EXCEPT !.gen_prealign = c.reg_prealign],
                row, aff, fault, c.reg_prealign)

\* get_for_row, lines 249-251: the mapping file and its sidecar
WriteGenerated(c, row, mapping_file, meta_fname, fault) ==
    write_json(WriteFile(c, row, mapping_file,
                         [kind |-> "mapping", mapping |-> c.mapping],
                         "write_mapping", fault),
               row, meta_fname, [type |-> "displacementfield"],
               "write_json:mapping", fault)

\* get_for_row, lines 236-251
EnsureMapping(self, c, row, aff, fault, mapping_file, meta_fname) ==
    IF c.exc # NoExc \/ op_exists(c, row, mapping_file)
    THEN c
    ELSE WriteGenerated(CallGenMapping(self, c, row, aff, fault),
                        row, mapping_file, meta_fname, fault)

\* get_for_row, lines 252-255: reg_prealign_inv
InvertPrealign(self, c) ==
    IF self.use_prealign THEN inv(c.reg_prealign) ELSE None

\* the value reg.read_mapping returned
Return(c, row, mapping_file) ==
    IF c.exc # NoExc THEN c
    ELSE [c EXCEPT !.ret = [mapping_file |-> mapping_file,
                            mapping |-> c.files[row][mapping_file].mapping,
                            prealign |-> c.read_prealign]]

\* get_for_row, lines 252-261
ReadMapping(self, c, row, fault, mapping_file) ==
    IF c.exc # NoExc THEN c
    ELSE Return(Invoke([c EXCEPT !.read_prealign = InvertPrealign(self, c)],
                       "read_mapping", fault),
                row, mapping_file)

\* GeneratedMapMixin.get_for_row
get_for_row(self, fs, row, aff, fault) ==
    ReadMapping(
        self,
        EnsureMapping(self,
                      EnsurePrealign(self, Ctx0(fs), row, aff, fault),
                      row, aff, fault,
                      get_fnames(self.extension)[1],
                      get_fnames(self.extension)[2]),
        row, fault,
        get_fnames(self.extension)[1])

----------------------------------------------------------------------------
(* SpecGen: repeated get_for_row calls of one definition object *)

Idle == [op |-> "idle"]

InitGen ==
    /\ defn \in {SynMap_init(TRUE), SynMap_init(FALSE), SlrMap_init, AffMap_init}
    /\ files = [r \in Rows |-> [n \in FileNames |-> NoFile]]
    /\ torn = {}
    /\ last = Idle
    /\ has_fslpy = FALSE
    /\ has_h5py = FALSE
    /\ afq = None
    /\ handles = 0
    /\ found = None
    /\ mapping = None

\* the artifacts whose sidecar write this call aborted
TornBy(c, row, mapping_file) ==
    IF c.exc = NoExc \/ c.calls = <<>> THEN {}
    ELSE IF c.calls[Len(c.calls)] = "write_json:prealign"
         THEN {<<row, PrealignNpy>>}
    ELSE IF c.calls[Len(c.calls)] = "write_json:mapping"
         THEN {<<row, mapping_file>>}
    ELSE {}

\* the state a get_for_row call that ended in context c leaves behind
Finish(row, mapping_file, c) ==
    /\ files' = c.files
    /\ torn' = torn \cup TornBy(c, row, mapping_file)
    /\ last' = [op |-> "get_for_row",
                row |-> row,
                had_mapping |-> files[row][mapping_file] # NoFile,
                had_prealign |-> files[row][PrealignNpy] # NoFile,
                calls |-> c.calls,
                exc |-> c.exc,
                gen_prealign |-> c.gen_prealign,
                read_prealign |-> c.read_prealign,
                ret |-> c.ret]

GenGetForRow(row) ==
    /\ \E aff \in Matrices, fault \in Faults :
           Finish(row, get_fnames(defn.extension)[1],
                  get_for_row(defn, files, row, aff, fault))
    /\ UNCHANGED defn
    /\ UNCHANGED extVars

NextGen == \E row \in Rows : GenGetForRow(row)

SpecGen == InitGen /\ [][NextGen]_vars

----------------------------------------------------------------------------
(* FnirtMap and ItkMap: maps read from precomputed warp files *)

Sessions == 1..NumSessions
Subjects == {"01", "02"}
\* rows of the data table: row['ses'], row['subject']
DataRows == [ses : Sessions, subject : Subjects]
\* row['dwi_file']
dwi_file(row) == <<"dwi", row.ses, row.subject>>

\* image grids: voxels per axis
Dims == {1, 2}
Shapes == Dims \X Dims \X Dims

\* the registration template of the run: afq_object.reg_template_img
TemplateShape == <<2, 1, 2>>

\* what find_file can find for a query: the file of one of two derivative
\* datasets, or none
Candidates == {"a", "b"}
NotFound == "none"
\* what the two find_file calls of FnirtMap.find_path find under one layout:
\* both files in the same derivative dataset, or one or both missing
FnirtFinds == {<<c, c>> : c \in Candidates}
              \cup {<<NotFound, "a">>, <<"a", NotFound>>, <<NotFound, NotFound>>}

\* a Python dict with no key
EmptyDict == [k \in {} |-> k]
\* d[k] = v
DictSet(d, k, v) == [j \in DOMAIN d \cup {k} |-> IF j = k THEN v ELSE d[j]]

\* FnirtMap.__init__, as a bug would have it: the attributes are assigned
\* before the dependency check
FnirtMap_init_late(has, warp_suffix, space_suffix, warp_filters, space_filters) ==
    [exc |-> IF has THEN NoExc ELSE "ImportError",
     attrs |-> [warp_suffix |-> warp_suffix, space_suffix |-> space_suffix,
                warp_filters |-> warp_filters, space_filters |-> space_filters,
                fnames |-> EmptyDict]]

\* FnirtMap.__init__ ; has is the module's has_fslpy
FnirtMap_init(has, warp_suffix, space_suffix, warp_filters, space_filters) ==
    IF ~has
    THEN [exc |-> "ImportError", attrs |-> EmptyDict]
    ELSE [exc |-> NoExc,
          attrs |-> [warp_suffix |-> warp_suffix, space_suffix |-> space_suffix,
                     warp_filters |-> warp_filters,
                     space_filters |-> space_filters,
                     fnames |-> EmptyDict]]

\* ItkMap.__init__ ; has is the module's has_h5py
ItkMap_init(has, warp_suffix, warp_filters) ==
    IF ~has
    THEN [exc |-> "ImportError", attrs |-> EmptyDict]
    ELSE [exc |-> NoExc,
          attrs |-> [warp_suffix |-> warp_suffix, warp_filters |-> warp_filters,
                     fnames |-> EmptyDict]]

\* `if session not in self.fnames: self.fnames[session] = {}`
WithSession(fnames, session) ==
    IF session \notin DOMAIN fnames
    THEN DictSet(fnames, session, EmptyDict)
    ELSE fnames

\* FnirtMap.find_path ; w and s are what the two find_file calls find
FnirtMap_find_path(attrs, subject, session, w, s) ==
    LET f1 == WithSession(attrs.fnames, session)
        nearest_warp == <<attrs.warp_suffix, w>>
        nearest_space == <<attrs.space_suffix, s>>
    IN  IF w = NotFound \/ s = NotFound
        THEN [exc |-> "ValueError",
              attrs |-> [attrs EXCEPT !.fnames = f1],
              stored |-> None]
        ELSE [exc |-> NoExc,
              attrs |-> [attrs EXCEPT !.fnames =
                             DictSet(f1, session,
                                     DictSet(f1[session], subject,
                                             <<nearest_warp, nearest_space>>))],
              stored |-> <<nearest_warp, nearest_space>>]

\* ItkMap.find_path, as a bug would have it: the session's table is reset
\* on every call
ItkMap_find_path_reset(attrs, subject, session, w) ==
    IF w = NotFound
    THEN [exc |-> "ValueError",
          attrs |-> [attrs EXCEPT !.fnames = DictSet(@, session, EmptyDict)],
          stored |-> None]
    ELSE [exc |-> NoExc,
          attrs |-> [attrs EXCEPT !.fnames =
                         DictSet(@, session,
                                 DictSet(EmptyDict, subject,
                                         <<attrs.warp_suffix, "h5", w>>))],
          stored |-> <<attrs.warp_suffix, "h5", w>>]

\* ItkMap.find_path ; w is what find_file finds
ItkMap_find_path(attrs, subject, session, w) ==
    LET f1 == WithSession(attrs.fnames, session)
        nearest_warp == <<attrs.warp_suffix, "h5", w>>
    IN  IF w = NotFound
        THEN [exc |-> "ValueError",
              attrs |-> [attrs EXCEPT !.fnames = f1],
              stored |-> None]
        ELSE [exc |-> NoExc,
              attrs |-> [attrs EXCEPT !.fnames =
                             DictSet(f1, session,
                                     DictSet(f1[session], subject,
                                             nearest_warp))],
              stored |-> nearest_warp]

\* self.fnames[row['ses']][row['subject']] raises KeyError
NoEntry(fnames, row) ==
    \/ row.ses \notin DOMAIN fnames
    \/ row.subject \notin DOMAIN fnames[row.ses]

\* ConformedFnirtMapping.__init__
ConformedFnirtMapping_init(warp, ref_affine) ==
    [cls |-> "ConformedFnirtMapping", ref_affine |-> ref_affine, warp |-> warp]

\* FnirtMap.get_for_row
FnirtMap_get_for_row(attrs, afq_object, row) ==
    IF NoEntry(attrs.fnames, row)
    THEN [exc |-> "KeyError", calls |-> <<>>, ret |-> None]
    ELSE LET entry == attrs.fnames[row.ses][row.subject]
             nearest_warp == entry[1]
             nearest_space == entry[2]
             warp == [fnirt |-> nearest_warp, src |-> nearest_space,
                      ref |-> dwi_file(row)]
         IN  [exc |-> NoExc,
              calls |-> <<"readFnirt">>,
              ret |-> ConformedFnirtMapping_init(warp, afq_object.affine)]

\* ConformedFnirtMapping.transform_inverse
ConformedFnirtMapping_transform_inverse(self, data, kwargs) ==
    [exc |-> NoExc,
     calls |-> <<"applyDeformation">>,
     self |-> self,
     ret |-> [deformed |-> <<"float32", data>>,
              affine |-> self.ref_affine,
              warp |-> self.warp]]

\* ConformedFnirtMapping.transform, as a bug would have it: falling back to
\* the direction that is implemented
ConformedFnirtMapping_transform_fallback(self, data, kwargs) ==
    ConformedFnirtMapping_transform_inverse(self, data, kwargs)

\* ConformedFnirtMapping.transform
ConformedFnirtMapping_transform(self, data, kwargs) ==
    [exc |-> "NotImplementedError", calls |-> <<>>, self |-> self, ret |-> None]

\* (our_shape != their_shape).any(), as a bug would have it: .all()
ShapesDiffer_all(our_shape, their_shape) ==
    \A i \in 1..3 : our_shape[i] # their_shape[i]

\* (our_shape != their_shape).any()
ShapesDiffer(our_shape, their_shape) ==
    \E i \in 1..3 : our_shape[i] # their_shape[i]

\* ItkMap.get_for_row ; nopen counts the open HDF5 file objects and
\* their_shape is TransformFixedParameters[:3] of the warp file
ItkMap_get_for_row(attrs, afq_object, nopen, row, their_shape) ==
    IF NoEntry(attrs.fnames, row)
    THEN [exc |-> "KeyError", calls |-> <<>>, nopen |-> nopen, ret |-> None]
    ELSE LET nearest_warp == attrs.fnames[row.ses][row.subject]
             our_shape == afq_object.shape
         IN  IF ShapesDiffer(our_shape, their_shape)
             THEN [exc |-> "ValueError",
                   calls |-> <<"h5py.File">>,
                   nopen |-> nopen + 1,
                   ret |-> None]
             ELSE [exc |-> NoExc,
                   calls |-> <<"h5py.File", "Nifti1Image", "close",
                               "read_mapping">>,
                   nopen |-> (nopen + 1) - 1,
                   ret |-> [cls |-> "DiffeomorphicMap",
                            disp |-> <<nearest_warp, their_shape>>,
                            domain |-> dwi_file(row),
                            codomain |-> our_shape]]

----------------------------------------------------------------------------
(* SpecExt: one FnirtMap or ItkMap object, from construction on *)

\* the object before __init__ has assigned anything
NewObject(cls) == [cls |-> cls, attrs |-> EmptyDict]

Constructed == "fnames" \in DOMAIN defn.attrs

\* data arrays and keyword arguments handed to the transforms
Data == 0..MaxData
FnirtKwargs == {EmptyDict, [interpolation |-> "nearest"]}

InitExt ==
    /\ defn \in {NewObject("FnirtMap"), NewObject("ItkMap")}
    /\ has_fslpy \in BOOLEAN
    /\ has_h5py \in BOOLEAN
    /\ afq = [shape |-> TemplateShape, affine |-> <<1, 0>>]
    /\ handles = 0
    /\ found = EmptyDict
    /\ mapping = None
    /\ last = Idle
    /\ files = None
    /\ torn = {}

FnirtInit ==
    /\ defn.cls = "FnirtMap"
    /\ ~Constructed
    /\ LET r == FnirtMap_init(has_fslpy, "warp", "MNI",
                              [scope |-> "TBSS"], [scope |-> "TBSS"])
       IN  /\ defn' = [defn EXCEPT !.attrs = r.attrs]
           /\ last' = [op |-> "__init__", exc |-> r.exc]
    /\ UNCHANGED <<files, torn, has_fslpy, has_h5py, afq, handles, found, mapping>>

ItkInit ==
    /\ defn.cls = "ItkMap"
    /\ ~Constructed
    /\ LET r == ItkMap_init(has_h5py, "xfm", [scope |-> "qsiprep"])
       IN  /\ defn' = [defn EXCEPT !.attrs = r.attrs]
           /\ last' = [op |-> "__init__", exc |-> r.exc]
    /\ UNCHANGED <<files, torn, has_fslpy, has_h5py, afq, handles, found, mapping>>

\* history of find_path: the files stored by the latest call that returned
Remember(r, subject, session) ==
    IF r.exc = NoExc
    THEN DictSet(found, [ses |-> session, subject |-> subject], r.stored)
    ELSE found

FnirtFindPath(subject, session) ==
    /\ defn.cls = "FnirtMap"
    /\ Constructed
    /\ \E f \in FnirtFinds :
          LET r == FnirtMap_find_path(defn.attrs, subject, session, f[1], f[2])
          IN  /\ defn' = [defn EXCEPT !.attrs = r.attrs]
              /\ found' = Remember(r, subject, session)
              /\ last' = [op |-> "find_path", ses |-> session,
                          subject |-> subject, exc |-> r.exc]
    /\ UNCHANGED <<files, torn, has_fslpy, has_h5py, afq, handles, mapping>>

ItkFindPath(subject, session) ==
    /\ defn.cls = "ItkMap"
    /\ Constructed
    /\ \E w \in Candidates \cup {NotFound} :
          LET r == ItkMap_find_path(defn.attrs, subject, session, w)
          IN  /\ defn' = [defn EXCEPT !.attrs = r.attrs]
              /\ found' = Remember(r, subject, session)
              /\ last' = [op |-> "find_path", ses |-> session,
                          subject |-> subject, exc |-> r.exc]
    /\ UNCHANGED <<files, torn, has_fslpy, has_h5py, afq, handles, mapping>>

FnirtGetForRow(row) ==
    /\ defn.cls = "FnirtMap"
    /\ Constructed
    /\ LET r == FnirtMap_get_for_row(defn.attrs, afq, row)
       IN  /\ mapping' = IF r.exc = NoExc THEN r.ret ELSE mapping
           /\ last' = [op |-> "get_for_row", ses |-> row.ses,
                       subject |-> row.subject, exc |-> r.exc,
                       calls |-> r.calls, ret |-> r.ret,
                       their_shape |-> None]
    /\ UNCHANGED <<defn, files, torn, has_fslpy, has_h5py, afq, handles, found>>

ItkGetForRow(row) ==
    /\ defn.cls = "ItkMap"
    /\ Constructed
    /\ handles < MaxOpen
    /\ \E their_shape \in Shapes :
          LET r == ItkMap_get_for_row(defn.attrs, afq, handles, row, their_shape)
          IN  /\ handles' = r.nopen
              /\ last' = [op |-> "get_for_row", ses |-> row.ses,
                          subject |-> row.subject, exc |-> r.exc,
                          calls |-> r.calls, ret |-> r.ret,
                          their_shape |-> their_shape]
    /\ UNCHANGED <<defn, files, torn, has_fslpy, has_h5py, afq, found, mapping>>

FnirtTransform ==
    /\ mapping # None
    /\ mapping.cls = "ConformedFnirtMapping"
    /\ \E data \in Data, kwargs \in FnirtKwargs :
          LET r == ConformedFnirtMapping_transform(mapping, data, kwargs)
          IN  /\ mapping' = r.self
              /\ last' = [op |-> "transform", data |-> data, kwargs |-> kwargs,
                          exc |-> r.exc, calls |-> r.calls, ret |-> r.ret]
    /\ UNCHANGED <<defn, files, torn, has_fslpy, has_h5py, afq, handles, found>>

FnirtTransformInverse ==
    /\ mapping # None
    /\ mapping.cls = "ConformedFnirtMapping"
    /\ \E data \in Data, kwargs \in FnirtKwargs :
          LET r == ConformedFnirtMapping_transform_inverse(mapping, data, kwargs)
          IN  /\ mapping' = r.self
              /\ last' = [op |-> "transform_inverse", data |-> data,
                          kwargs |-> kwargs,
                          exc |-> r.exc, calls |-> r.calls, ret |-> r.ret]
    /\ UNCHANGED <<defn, files, torn, has_fslpy, has_h5py, afq, handles, found>>

NextExt ==
    \/ FnirtInit
    \/ ItkInit
    \/ \E subject \in Subjects, session \in Sessions :
           FnirtFindPath(subject, session)
    \/ \E subject \in Subjects, session \in Sessions :
           ItkFindPath(subject, session)
    \/ \E row \in DataRows : FnirtGetForRow(row)
    \/ \E row \in DataRows : ItkGetForRow(row)
    \/ FnirtTransform
    \/ FnirtTransformInverse

SpecExt == InitExt /\ [][NextExt]_vars

----------------------------------------------------------------------------
(* ConformedAffineMapping: AffineMap with the two directions swapped *)

\* AffineMap.transform of the superclass (dipy.align.imaffine): its value is
\* identified by the receiver and the arguments it was called with
AffineMap_transform(self, args, kwargs) ==
    [by |-> "AffineMap.transform", affine |-> self.affine,
     args |-> args, kwargs |-> kwargs]

\* AffineMap.transform_inverse of the superclass
AffineMap_transform_inverse(self, args, kwargs) ==
    [by |-> "AffineMap.transform_inverse", affine |-> self.affine,
     args |-> args, kwargs |-> kwargs]

\* binding of the call's keywords to (interpolation='linear', **kwargs)
Interpolation(kw) ==
    IF "interpolation" \in DOMAIN kw THEN kw["interpolation"] ELSE "linear"
RestKwargs(kw) == [k \in DOMAIN kw \ {"interpolation"} |-> kw[k]]

\* ConformedAffineMapping.transform, as a bug would have it: not swapped
ConformedAffineMapping_transform_unswapped(self, args, kw) ==
    AffineMap_transform(
        self, args, DictSet(RestKwargs(kw), "interp", Interpolation(kw)))

\* ConformedAffineMapping.transform ; kw holds the keywords of the call
ConformedAffineMapping_transform(self, args, kw) ==
    AffineMap_transform_inverse(
        self, args, DictSet(RestKwargs(kw), "interp", Interpolation(kw)))

\* ConformedAffineMapping.transform_inverse
ConformedAffineMapping_transform_inverse(self, args, kw) ==
    AffineMap_transform(
        self, args, DictSet(RestKwargs(kw), "interp", Interpolation(kw)))

----------------------------------------------------------------------------
(* SpecAff: calls on one ConformedAffineMapping *)

\* the keywords a caller may pass, each present or not
AllKeywords ==
    {[interpolation |-> i, interp |-> "nearest", resample_only |-> "True"] :
         i \in {"linear", "nearest"}}
Keywords ==
    {[k \in ks |-> full[k]] : ks \in SUBSET {"interpolation", "interp",
                                              "resample_only"},
                               full \in AllKeywords}

InitAff ==
    /\ mapping \in {[cls |-> "ConformedAffineMapping", affine |-> m] :
                        m \in Matrices}
    /\ last = Idle
    /\ defn = None
    /\ files = None
    /\ torn = {}
    /\ has_fslpy = FALSE
    /\ has_h5py = FALSE
    /\ afq = None
    /\ handles = 0
    /\ found = None

AffTransform ==
    /\ \E data \in Data, kw \in Keywords :
          last' = [op |-> "transform", args |-> <<data>>, kw |-> kw,
                   ret |-> ConformedAffineMapping_transform(mapping, <<data>>, kw)]
    /\ UNCHANGED <<defn, files, torn, extVars>>

AffTransformInverse ==
    /\ \E data \in Data, kw \in Keywords :
          last' = [op |-> "transform_inverse", args |-> <<data>>, kw |-> kw,
                   ret |-> ConformedAffineMapping_transform_inverse(
                               mapping, <<data>>, kw)]
    /\ UNCHANGED <<defn, files, torn, extVars>>

NextAff == AffTransform \/ AffTransformInverse

SpecAff == InitAff /\ [][NextAff]_vars

----------------------------------------------------------------------------
(* Claims about the generated maps (SpecGen) *)

\* the last call made the external call `name`
Called(name) == \E i \in 1..Len(last.calls) : last.calls[i] = name

\* the last call made `first` before it made `second`
CalledBefore(first, second) ==
    \E i, j \in 1..Len(last.calls) :
        i < j /\ last.calls[i] = first /\ last.calls[j] = second

LastIsGet == last.op = "get_for_row"
Returned == LastIsGet /\ last.exc = NoExc
MappingFile == get_fnames(defn.extension)[1]
MetaFile == get_fnames(defn.extension)[2]

\* matrix product [[a, t], [0, 1]] . [[b, u], [0, 1]]
MatMul(m, n) == <<m[1] * n[1], m[1] * n[2] + m[2]>>
Identity == <<1, 0>>

\* what the last call did not do, given the files it found
C1_CacheReused ==
    LastIsGet =>
        /\ last.had_mapping =>
               /\ ~Called("gen_mapping")
               /\ ~Called("syn_registration")
               /\ ~Called("write_mapping")
               /\ ~Called("write_json:mapping")
               /\ (last.exc = NoExc => Called("read_mapping"))
        /\ last.had_prealign =>
               /\ ~Called("affine_registration")
               /\ ~Called("np.save")
               /\ ~Called("write_json:prealign")

\* a step leaves the artifacts already on disk as they are
C1_WrittenOnce ==
    \A r \in Rows : \A n \in {MappingFile, PrealignNpy} :
        files[r][n] # NoFile => files'[r][n] = files[r][n]

\* C1: a get_for_row call made while the row's mapping file exists never
\* invokes gen_mapping, reg.write_mapping or the sidecar write and, when it
\* returns, has read the file with reg.read_mapping; affine_registration and
\* np.save run only in a call that found no prealign file; and a mapping or
\* prealign file, once on disk, is never written again.
C1_GeneratedAtMostOnce == [](C1_CacheReused) /\ [][C1_WrittenOnce]_vars

\* C1 witness: a SynMap call that found both files cached and returned
C1_Witness ==
    /\ Returned
    /\ defn.use_prealign
    /\ last.had_mapping
    /\ last.had_prealign
    /\ Called("read_mapping")

\* C2: for each of SynMap, SlrMap and AffMap, a get_for_row call for a row
\* without mapping file, in which no external collaborator fails, invokes
\* gen_mapping without raising, writes the mapping file and returns the
\* mapping loaded by reg.read_mapping.
C2_GetForRowProducesMapping ==
    (LastIsGet /\ ~last.had_mapping /\ last.exc # "ExternalError") =>
        /\ last.exc = NoExc
        /\ Called("gen_mapping")
        /\ CalledBefore("write_mapping", "read_mapping")
        /\ files[last.row][MappingFile] # NoFile
        /\ last.ret # None

C8_PrealignFirst ==
    /\ LastIsGet =>
           IF defn.use_prealign
           THEN /\ Called("gen_mapping") =>
                       /\ CalledBefore("prealign", "gen_mapping")
                       /\ files[last.row][PrealignNpy] # NoFile
                       /\ last.gen_prealign =
                              files[last.row][PrealignNpy].data
                /\ Called("read_mapping") =>
                       /\ files[last.row][PrealignNpy] # NoFile
                       /\ last.read_prealign \in Matrices
                       /\ MatMul(last.read_prealign,
                                 files[last.row][PrealignNpy].data) = Identity
           ELSE /\ Called("prealign") => CalledBefore("gen_mapping", "prealign")
                /\ ~CalledBefore("prealign", "gen_mapping")
                /\ Called("gen_mapping") => last.gen_prealign = None
                /\ Called("read_mapping") => last.read_prealign = None
    /\ \A r \in Rows :
           (defn.use_prealign /\ files[r][MappingFile] # NoFile) =>
               files[r][PrealignNpy] # NoFile

\* C8 witness: a SynMap call with use_prealign that computed a prealign
\* matrix other than the identity, generated the mapping and returned
C8_Witness ==
    /\ Returned
    /\ defn.use_prealign
    /\ ~last.had_prealign
    /\ Called("gen_mapping")
    /\ Called("read_mapping")
    /\ last.gen_prealign # Identity
    /\ last.read_prealign # last.gen_prealign

----------------------------------------------------------------------------
(* Claims about FnirtMap and ItkMap (SpecExt) *)

\* the entry of a (session, subject) pair in fnames, None when there is none
Entry(attrs, pair) ==
    IF "fnames" \notin DOMAIN attrs THEN None
    ELSE IF NoEntry(attrs.fnames, pair) THEN None
    ELSE attrs.fnames[pair.ses][pair.subject]

LastPair == [ses |-> last.ses, subject |-> last.subject]

\* C3: constructing FnirtMap without fslpy, or ItkMap without h5py, raises
\* ImportError with no attribute assigned; with the dependency present the
\* constructor returns and fnames is an empty table.
C3_ImportErrorBeforeAttributes ==
    last.op = "__init__" =>
        IF \/ (defn.cls = "FnirtMap" /\ ~has_fslpy)
           \/ (defn.cls = "ItkMap" /\ ~has_h5py)
        THEN /\ last.exc = "ImportError"
             /\ DOMAIN defn.attrs = {}
        ELSE /\ last.exc = NoExc
             /\ {"warp_suffix", "warp_filters", "fnames"} \subseteq DOMAIN defn.attrs
             /\ DOMAIN defn.attrs.fnames = {}

\* C3 witness: a FnirtMap constructor that raised although h5py is there
C3_Witness ==
    /\ last.op = "__init__"
    /\ defn.cls = "FnirtMap"
    /\ has_h5py
    /\ last.exc = "ImportError"

\* C4: an ItkMap.get_for_row call that opened the warp file raises
\* ValueError exactly when the warp's first three fixed parameters differ
\* from the template's shape, then without building the displacement field
\* or calling reg.read_mapping; it returns a mapping only when all three
\* dimensions are equal.
C4_ShapeMismatchRaises ==
    (last.op = "get_for_row" /\ defn.cls = "ItkMap" /\ last.exc # "KeyError") =>
        /\ (last.their_shape # afq.shape) <=> (last.exc = "ValueError")
        /\ last.exc = "ValueError" =>
               /\ last.calls = <<"h5py.File">>
               /\ last.ret = None
        /\ last.exc = NoExc =>
               /\ \A i \in 1..3 : last.their_shape[i] = afq.shape[i]
               /\ last.ret # None
               /\ last.calls[Len(last.calls)] = "read_mapping"

\* C4 witness: a warp that differs from the template in one dimension only
C4_Witness ==
    /\ last.op = "get_for_row"
    /\ defn.cls = "ItkMap"
    /\ last.exc = "ValueError"
    /\ Cardinality({i \in 1..3 : last.their_shape[i] # afq.shape[i]}) = 1

\* the outcome of the last transform / transform_inverse call
C5_LastTransform ==
    /\ last.op = "transform" =>
           /\ last.exc = "NotImplementedError"
           /\ last.calls = <<>>
           /\ last.ret = None
    /\ last.op = "transform_inverse" =>
           /\ last.exc = NoExc
           /\ last.calls = <<"applyDeformation">>
           /\ last.ret # None
           /\ last.ret.warp = mapping.warp

\* a transform / transform_inverse step leaves the mapping as it is
C5_MappingKept ==
    last'.op \in {"transform", "transform_inverse"} => mapping' = mapping

\* C5: on a mapping returned by FnirtMap.get_for_row, transform raises
\* NotImplementedError for every input without applying a deformation, and
\* transform_inverse applies the deformation and returns data; neither
\* changes the mapping's warp or ref_affine.
C5_TransformNotImplemented == [](C5_LastTransform) /\ [][C5_MappingKept]_vars

\* C5 witness: transform raised on a mapping that get_for_row returned
C5_Witness ==
    /\ last.op = "transform"
    /\ mapping # None
    /\ last.kwargs # EmptyDict
    /\ last.exc = "NotImplementedError"

\* fnames agrees with the history of find_path
C9_Entries ==
    /\ Constructed =>
           \A pair \in DataRows :
               Entry(defn.attrs, pair) =
                   IF pair \in DOMAIN found THEN found[pair] ELSE None
    /\ (last.op = "get_for_row" /\ last.exc # "KeyError") =>
           LastPair \in DOMAIN found

\* what a find_path / get_for_row step leaves unchanged
C9_Frame ==
    /\ last'.op = "find_path" =>
           \A pair \in DataRows :
               pair # [ses |-> last'.ses, subject |-> last'.subject] =>
                   Entry(defn'.attrs, pair) = Entry(defn.attrs, pair)
    /\ last'.op = "get_for_row" => defn' = defn

\* C9: fnames[session][subject] holds what the latest find_path call that
\* returned for the pair stored, and has no other entry; a find_path call
\* changes the entry of no other pair; get_for_row finds its file only if
\* find_path stored one for the row's pair, and never modifies fnames.
C9_FnamesFrame == [](C9_Entries) /\ [][C9_Frame]_vars

\* C9 witness: two pairs hold entries and the latest find_path replaced the
\* entry of one of them
C9_Witness ==
    /\ last.op = "find_path"
    /\ last.exc = NoExc
    /\ \E other \in DataRows :
           /\ other # LastPair
           /\ Entry(defn.attrs, other) # None
           /\ Entry(defn.attrs, LastPair) # None
           /\ Entry(defn.attrs, other) # Entry(defn.attrs, LastPair)

\* C10: every ItkMap.get_for_row call closes the HDF5 file it opened before
\* control leaves it, on return and on ValueError alike, so no warp file
\* handle is ever left open.
C10_HandleAlwaysClosed ==
    (last.op = "get_for_row" /\ defn.cls = "ItkMap") => handles = 0

----------------------------------------------------------------------------
(* Claims about ConformedAffineMapping (SpecAff) *)

\* the keywords the superclass must receive: the caller's, without
\* 'interpolation', and with 'interp' set to it ('linear' when not given)
Forwarded(kw) ==
    [k \in (DOMAIN kw \ {"interpolation"}) \cup {"interp"} |->
        IF k = "interp"
        THEN (IF "interpolation" \in DOMAIN kw
              THEN kw["interpolation"] ELSE "linear")
        ELSE kw[k]]

====
